---- MODULE Spec2Model ----
(***************************************************************************)
(* timespec_sub (gnulib, lib/timespec-sub.c): the saturating difference of *)
(* two struct timespec values, modelled statement by statement.            *)
(*                                                                         *)
(* time_t is a signed two's complement integer of TimeBits bits and        *)
(* TIMESPEC_HZ is scaled down, so that every pair of arguments can be      *)
(* enumerated.  A call is a frame: the arguments a and b, the locals rs,   *)
(* bs, ns, rns, bs1, the returned value ret and the position pc, named     *)
(* after the source line about to be executed.  bs1 and ret hold <<>>      *)
(* until they are assigned and <<v>> afterwards.                           *)
(* Signed overflow in an unchecked operation is undefined behaviour: the   *)
(* frame moves to pc = "ub" and nothing more is known about the call.      *)
(***************************************************************************)
EXTENDS Integers, Sequences, FiniteSets, TLC

VARIABLES frame

vars == <<frame>>

(* ------------------------------ bounds --------------------------------- *)

\* width of time_t in bits (64 in the build; scaled down)
TimeBits == 3

\* sub-second units per second (1000000000 in the build; scaled down)
TIMESPEC_HZ == 3

(* --------------------------- integer types ----------------------------- *)

RECURSIVE Pow2(_)
Pow2(n) == IF n = 0 THEN 1 ELSE 2 * Pow2(n - 1)

\* intprops.h: 1 when the type is signed; time_t is signed
TYPE_SIGNED == 1

TYPE_MINIMUM == -Pow2(TimeBits - 1)

TYPE_MAXIMUM == Pow2(TimeBits - 1) - 1

TimeT == TYPE_MINIMUM .. TYPE_MAXIMUM

\* the value a two's complement time_t holds after a result x is stored in it
WrapTimeT(x) == ((x - TYPE_MINIMUM) % Pow2(TimeBits)) + TYPE_MINIMUM

\* int is wide enough for (-TIMESPEC_HZ, 2*TIMESPEC_HZ), as 2^31 is for 10^9
INT_MAX == 2 * TIMESPEC_HZ + 1

INT_MIN == -INT_MAX - 1

\* conversion of a long to int
ToInt(x) == ((x - INT_MIN) % (INT_MAX - INT_MIN + 1)) + INT_MIN

\* stdckdint.h: store the wrapped sum, return whether the true sum did not fit
ckd_add(x, y) == [overflow |-> (x + y) \notin TimeT, value |-> WrapTimeT(x + y)]

\* stdckdint.h: store the wrapped difference, return whether it did not fit
ckd_sub(x, y) == [overflow |-> (x - y) \notin TimeT, value |-> WrapTimeT(x - y)]

make_timespec(s, ns) == [tv_sec |-> s, tv_nsec |-> ns]

\* the valid arguments: 0 <= tv_nsec < TIMESPEC_HZ
TimePoint == [tv_sec : TimeT, tv_nsec : 0 .. (TIMESPEC_HZ - 1)]

(* ------------------------ statements of timespec_sub ------------------- *)

\* lines 31-36: the call, arguments passed by value, and the initialised
\* declarations of rs, bs, ns and rns; bs1 and the returned value unassigned
Entry(a, b) ==
  LET d == ToInt(a.tv_nsec - b.tv_nsec)
  IN  [pc |-> "L38", a |-> a, b |-> b, rs |-> a.tv_sec, bs |-> b.tv_sec,
       ns |-> d, rns |-> d, bs1 |-> <<>>, ret |-> <<>>]

\* line 38: if (ns < 0)
TestNsNonPositive(f) == [f EXCEPT !.pc = IF f.ns <= 0 THEN "L40" ELSE "L50"]

TestNs(f) == [f EXCEPT !.pc = IF f.ns < 0 THEN "L40" ELSE "L50"]

\* line 40: rns = ns + TIMESPEC_HZ, an unchecked int addition
AddHzOmitted(f) == [f EXCEPT !.pc = "L42"]

AddHz(f) ==
  IF f.ns + TIMESPEC_HZ \in INT_MIN .. INT_MAX
  THEN [f EXCEPT !.pc = "L42", !.rns = f.ns + TIMESPEC_HZ]
  ELSE [f EXCEPT !.pc = "ub"]

\* lines 41-42: time_t bs1; if (!ckd_add (&bs1, bs, 1))
CkdAddBsUnchecked(f) ==
  IF f.bs + 1 \in TimeT
  THEN [f EXCEPT !.pc = "L43", !.bs1 = <<f.bs + 1>>]
  ELSE [f EXCEPT !.pc = "ub"]

CkdAddBs(f) ==
  LET r == ckd_add(f.bs, 1)
  IN  [f EXCEPT !.pc = IF ~r.overflow THEN "L43" ELSE "L44",
                !.bs1 = <<r.value>>]

\* line 43: bs = bs1
AssignBsDropped(f) == [f EXCEPT !.pc = "L50"]

AssignBs(f) == [f EXCEPT !.pc = "L50", !.bs = f.bs1[1]]

\* line 44: else if (- TYPE_SIGNED (time_t) < rs), else line 46
TestRsAboveMinimum(f) ==
  [f EXCEPT !.pc = IF TYPE_MINIMUM < f.rs THEN "L45" ELSE "L47"]

TestRsAlways(f) == [f EXCEPT !.pc = "L45"]

TestRs(f) == [f EXCEPT !.pc = IF -TYPE_SIGNED < f.rs THEN "L45" ELSE "L47"]

\* line 45: rs--, an unchecked time_t decrement
DecRs(f) ==
  IF f.rs - 1 \in TimeT
  THEN [f EXCEPT !.pc = "L50", !.rs = f.rs - 1]
  ELSE [f EXCEPT !.pc = "ub"]

\* line 47: goto low_overflow
GotoLowOverflow(f) == [f EXCEPT !.pc = "L55"]

\* line 50: if (ckd_sub (&rs, rs, bs))
CkdSubRs(f) ==
  LET r == ckd_sub(f.rs, f.bs)
  IN  [f EXCEPT !.pc = IF r.overflow THEN "L52" ELSE "L65", !.rs = r.value]

\* line 52: if (0 < bs), else line 58
TestBsInverted(f) == [f EXCEPT !.pc = IF f.bs < 0 THEN "L55" ELSE "L60"]

TestBs(f) == [f EXCEPT !.pc = IF 0 < f.bs THEN "L55" ELSE "L60"]

\* lines 54-56: low_overflow: rs = TYPE_MINIMUM (time_t); rns = 0
LowOverflowKeepsRns(f) == [f EXCEPT !.pc = "L65", !.rs = TYPE_MINIMUM]

LowOverflow(f) == [f EXCEPT !.pc = "L65", !.rs = TYPE_MINIMUM, !.rns = 0]

\* lines 60-61: rs = TYPE_MAXIMUM (time_t); rns = TIMESPEC_HZ - 1
HighOverflowRnsHz(f) ==
  [f EXCEPT !.pc = "L65", !.rs = TYPE_MAXIMUM, !.rns = TIMESPEC_HZ]

HighOverflowZeroRns(f) == [f EXCEPT !.pc = "L65", !.rs = TYPE_MAXIMUM, !.rns = 0]

HighOverflow(f) ==
  [f EXCEPT !.pc = "L65", !.rs = TYPE_MAXIMUM, !.rns = TIMESPEC_HZ - 1]

\* line 65: return make_timespec (rs, rns)
Return(f) == [f EXCEPT !.pc = "done", !.ret = <<make_timespec(f.rs, f.rns)>>]

\* the positions at which a call has ended
Ended == {"done", "ub"}

\* the statement at the frame's position
Step(f) ==
  CASE f.pc = "L38" -> TestNs(f)
    [] f.pc = "L40" -> AddHz(f)
    [] f.pc = "L42" -> CkdAddBs(f)
    [] f.pc = "L43" -> AssignBs(f)
    [] f.pc = "L44" -> TestRs(f)
    [] f.pc = "L45" -> DecRs(f)
    [] f.pc = "L47" -> GotoLowOverflow(f)
    [] f.pc = "L50" -> CkdSubRs(f)
    [] f.pc = "L52" -> TestBs(f)
    [] f.pc = "L55" -> LowOverflow(f)
    [] f.pc = "L60" -> HighOverflow(f)
    [] f.pc = "L65" -> Return(f)

\* the frame at the end of the call that is at f
RECURSIVE Run(_)
Run(f) == IF f.pc \in Ended THEN f ELSE Run(Step(f))

\* the whole call: <<r>> when it returns r, <<>> when it does not return
timespec_sub(a, b) == Run(Entry(a, b)).ret

(* ------------------------------ the machine ---------------------------- *)

Init == \E a \in TimePoint, b \in TimePoint : frame = Entry(a, b)

DoTestNs == frame.pc = "L38" /\ frame' = TestNs(frame)

DoAddHz == frame.pc = "L40" /\ frame' = AddHz(frame)

DoCkdAddBs == frame.pc = "L42" /\ frame' = CkdAddBs(frame)

DoAssignBs == frame.pc = "L43" /\ frame' = AssignBs(frame)

DoTestRs == frame.pc = "L44" /\ frame' = TestRs(frame)

DoDecRs == frame.pc = "L45" /\ frame' = DecRs(frame)

DoGotoLowOverflow == frame.pc = "L47" /\ frame' = GotoLowOverflow(frame)

DoCkdSubRs == frame.pc = "L50" /\ frame' = CkdSubRs(frame)

DoTestBs == frame.pc = "L52" /\ frame' = TestBs(frame)

DoLowOverflow == frame.pc = "L55" /\ frame' = LowOverflow(frame)

DoHighOverflow == frame.pc = "L60" /\ frame' = HighOverflow(frame)

DoReturn == frame.pc = "L65" /\ frame' = Return(frame)

Next ==
  \/ DoTestNs
  \/ DoAddHz
  \/ DoCkdAddBs
  \/ DoAssignBs
  \/ DoTestRs
  \/ DoDecRs
  \/ DoGotoLowOverflow
  \/ DoCkdSubRs
  \/ DoTestBs
  \/ DoLowOverflow
  \/ DoHighOverflow
  \/ DoReturn

Spec == Init /\ [][Next]_vars

\* a call, once made, keeps executing: the function neither blocks nor waits
FairSpec == Spec /\ WF_vars(Next)

(* ------------------------------ properties ----------------------------- *)

\* a TimePoint counted in sub-second units
Units(t) == t.tv_sec * TIMESPEC_HZ + t.tv_nsec

\* the true difference a - b of the call's arguments, in sub-second units
TrueDiff == Units(frame.a) - Units(frame.b)

LeastUnits == TYPE_MINIMUM * TIMESPEC_HZ

MostUnits == TYPE_MAXIMUM * TIMESPEC_HZ + (TIMESPEC_HZ - 1)

LowClamp == make_timespec(TYPE_MINIMUM, 0)

HighClamp == make_timespec(TYPE_MAXIMUM, TIMESPEC_HZ - 1)

Returned == frame.pc = "done" /\ Len(frame.ret) = 1

Result == frame.ret[1]

Abs(x) == IF x < 0 THEN -x ELSE x

\* C1: when the true difference of the arguments lies in
\* [SEC_MIN*HZ, SEC_MAX*HZ + HZ-1], the call returns exactly that difference,
\* normalised; differences whose seconds part is SEC_MIN or SEC_MAX included.
C1_ExactInRange ==
  (frame.pc \in Ended /\ TrueDiff >= LeastUnits /\ TrueDiff <= MostUnits)
    => /\ Returned
       /\ Result.tv_nsec \in 0 .. (TIMESPEC_HZ - 1)
       /\ Units(Result) = TrueDiff

\* the boundary computed, not clamped: {SEC_MIN + 1, 0} - {1, 0} = {SEC_MIN, 0}
\* reached without the borrow, the difference being exactly SEC_MIN seconds
C1_Witness ==
  /\ Returned
  /\ frame.a = make_timespec(TYPE_MINIMUM + 1, 0)
  /\ frame.b = make_timespec(1, 0)
  /\ TrueDiff = LeastUnits
  /\ Result = make_timespec(TYPE_MINIMUM, 0)

\* C2: when the true difference is below SEC_MIN seconds, the call returns
\* exactly {SEC_MIN, 0}.
C2_LowClamp ==
  (frame.pc \in Ended /\ TrueDiff < LeastUnits)
    => (Returned /\ Result = LowClamp)

\* {SEC_MIN, 0} - {1, 0} = {SEC_MIN, 0}
C2_Witness ==
  /\ Returned
  /\ frame.a = make_timespec(TYPE_MINIMUM, 0)
  /\ frame.b = make_timespec(1, 0)
  /\ TrueDiff < LeastUnits
  /\ Result = LowClamp

\* C3: when the true difference is above SEC_MAX seconds and HZ-1 units, the
\* call returns exactly {SEC_MAX, HZ-1}.
C3_HighClamp ==
  (frame.pc \in Ended /\ TrueDiff > MostUnits)
    => (Returned /\ Result = HighClamp)

\* {SEC_MAX, HZ-1} - {-1, 0} = {SEC_MAX, HZ-1}
C3_Witness ==
  /\ Returned
  /\ frame.a = make_timespec(TYPE_MAXIMUM, TIMESPEC_HZ - 1)
  /\ frame.b = make_timespec(-1, 0)
  /\ TrueDiff > MostUnits
  /\ Result = HighClamp

\* C4: the value returned for valid arguments is a valid TimePoint again:
\* 0 <= tv_nsec < HZ and SEC_MIN <= tv_sec <= SEC_MAX, on every path.
C4_Closed == (frame.pc \in Ended) => (Returned /\ Result \in TimePoint)

\* a call that borrowed and returned
C4_Witness ==
  /\ Returned
  /\ frame.a.tv_nsec < frame.b.tv_nsec
  /\ Result.tv_nsec = frame.a.tv_nsec - frame.b.tv_nsec + TIMESPEC_HZ

\* C5: no unchecked operation leaves its type's range: ns is the true
\* difference of the sub-second parts and lies strictly between -HZ and HZ,
\* rns = ns + HZ lies in [0, HZ), and rs-- is only executed when rs > SEC_MIN;
\* no call reaches undefined behaviour.
C5_NoWraparound ==
  /\ frame.pc # "ub"
  /\ frame.ns = frame.a.tv_nsec - frame.b.tv_nsec
  /\ frame.ns > -TIMESPEC_HZ
  /\ frame.ns < TIMESPEC_HZ
  /\ (frame.pc \in {"L42", "L43", "L44", "L45", "L47"}) =>
       /\ frame.rns = frame.ns + TIMESPEC_HZ
       /\ frame.rns \in 0 .. (TIMESPEC_HZ - 1)
  /\ (frame.pc = "L45") => frame.rs > TYPE_MINIMUM

\* the decrement is about to execute, with b.tv_sec at SEC_MAX
C5_Witness ==
  /\ frame.pc = "L45"
  /\ frame.b.tv_sec = TYPE_MAXIMUM
  /\ frame.ns < 0
  /\ frame.rs > TYPE_MINIMUM

\* C6: a - a is {0, 0} for every valid a, never a clamp value.
C6_Identity ==
  (frame.pc \in Ended /\ frame.a = frame.b)
    => (Returned /\ Result = make_timespec(0, 0))

\* the identity at the least TimePoint with a non-zero sub-second part
C6_Witness ==
  /\ Returned
  /\ frame.a = frame.b
  /\ frame.a = make_timespec(TYPE_MINIMUM, TIMESPEC_HZ - 1)
  /\ Result = make_timespec(0, 0)

\* C7: every call ends by returning a TimePoint with both fields assigned;
\* no path, the goto low_overflow included, ends anywhere else.
C7_Total ==
  <>(/\ Returned
     /\ Result.tv_sec \in TimeT
     /\ Result.tv_nsec \in 0 .. (TIMESPEC_HZ - 1))

\* a call that took the goto low_overflow and returned
C7_Witness ==
  /\ Returned
  /\ frame.bs1 = <<TYPE_MINIMUM>>
  /\ frame.a.tv_sec < 0
  /\ frame.b.tv_sec = TYPE_MAXIMUM
  /\ Result = LowClamp

\* C8, as claimed: after a borrow whose increment of b.tv_sec overflows, the
\* decrement is taken whenever a.tv_sec > SEC_MIN and the goto only when
\* a.tv_sec = SEC_MIN.
C8_AsClaimed ==
  /\ (frame.pc = "L43") =>
       (frame.b.tv_sec < TYPE_MAXIMUM /\ frame.bs1 = <<frame.b.tv_sec + 1>>)
  /\ (frame.pc = "L45") =>
       (frame.b.tv_sec = TYPE_MAXIMUM /\ frame.a.tv_sec > TYPE_MINIMUM)
  /\ (frame.pc = "L47") =>
       (frame.b.tv_sec = TYPE_MAXIMUM /\ frame.a.tv_sec = TYPE_MINIMUM)

\* C8, amended: after a borrow, the incremented b.tv_sec is the subtrahend
\* when the increment does not overflow; when it overflows, a.tv_sec is
\* decremented exactly when a.tv_sec > -1, and the goto low_overflow is taken
\* exactly when a.tv_sec is negative (SEC_MIN or any other negative value).
C8_Borrow ==
  /\ (frame.pc = "L43") =>
       (frame.b.tv_sec < TYPE_MAXIMUM /\ frame.bs1 = <<frame.b.tv_sec + 1>>)
  /\ (frame.pc = "L44") =>
       /\ frame.b.tv_sec = TYPE_MAXIMUM
       /\ (frame.a.tv_sec > -1) <=> (TestRs(frame).pc = "L45")
       /\ (frame.a.tv_sec < 0) <=> (TestRs(frame).pc = "L47")
  /\ (frame.pc = "L45") =>
       (frame.b.tv_sec = TYPE_MAXIMUM /\ frame.a.tv_sec > -1)
  /\ (frame.pc = "L47") =>
       (frame.b.tv_sec = TYPE_MAXIMUM /\ frame.a.tv_sec < 0)
  /\ (frame.pc = "L50" /\ frame.ns < 0) =>
       \/ /\ frame.b.tv_sec < TYPE_MAXIMUM
          /\ frame.bs = frame.b.tv_sec + 1
          /\ frame.rs = frame.a.tv_sec
       \/ /\ frame.b.tv_sec = TYPE_MAXIMUM
          /\ frame.bs = frame.b.tv_sec
          /\ frame.a.tv_sec > -1
          /\ frame.rs = frame.a.tv_sec - 1

\* the goto taken with a.tv_sec negative and above SEC_MIN
C8_Witness ==
  /\ frame.pc = "L47"
  /\ frame.b.tv_sec = TYPE_MAXIMUM
  /\ frame.a.tv_sec = -1
  /\ frame.a.tv_sec > TYPE_MINIMUM

\* C9: when the checked subtraction overflows, the adjusted subtrahend bs is
\* not zero; if bs is positive the true difference is below the range and the
\* call returns {SEC_MIN, 0}; if bs is negative the true difference is above
\* the range and the call returns {SEC_MAX, HZ-1}.
C9_ClampDirection ==
  (frame.pc = "L52") =>
    /\ frame.bs # 0
    /\ (frame.bs > 0) =>
         (TrueDiff < LeastUnits /\ Run(frame).ret = <<LowClamp>>)
    /\ (frame.bs < 0) =>
         (TrueDiff > MostUnits /\ Run(frame).ret = <<HighClamp>>)

\* the checked subtraction has just overflowed with a negative subtrahend
C9_Witness ==
  /\ frame.pc = "L52"
  /\ frame.bs < 0
  /\ frame.a.tv_sec - frame.b.tv_sec > TYPE_MAXIMUM

\* C10: ordering TimePoints by their count of sub-second units, the result
\* does not decrease when a grows and does not increase when b grows, and it
\* is a valid TimePoint nearest to the true difference.
C10_Monotone ==
  (frame.pc \in Ended) =>
    /\ Returned
    /\ \A a2 \in TimePoint :
         (Units(frame.a) <= Units(a2)) =>
           (Units(Result) <= Units(timespec_sub(a2, frame.b)[1]))
    /\ \A b2 \in TimePoint :
         (Units(frame.b) <= Units(b2)) =>
           (Units(Result) >= Units(timespec_sub(frame.a, b2)[1]))
    /\ \A t \in TimePoint :
         Abs(Units(Result) - TrueDiff) <= Abs(Units(t) - TrueDiff)

\* a clamped result, with an exact result above it for a larger a
C10_Witness ==
  /\ Returned
  /\ TrueDiff < LeastUnits
  /\ Result = LowClamp
  /\ \E a2 \in TimePoint :
       /\ Units(frame.a) < Units(a2)
       /\ Units(timespec_sub(a2, frame.b)[1]) > Units(Result)
       /\ Units(timespec_sub(a2, frame.b)[1]) = Units(a2) - Units(frame.b)

====
